---------------------------- MODULE Spec2Model ----------------------------
(***************************************************************************)
(* Model of src/dashboard.py: the age-group label normalizer applied by    *)
(* load_data, and one run of the dashboard script (filter, empty-view      *)
(* gate, export, aggregation, trend, insights), re-run on every change of  *)
(* the sidebar selection.                                                  *)
(*                                                                         *)
(* A label is a sequence of characters; a character is a one-symbol        *)
(* string.  Characters outside ASCII are written by name: "GE" is U+2265   *)
(* (the greater-or-equal sign), "a^" "permille" "yen" are the three        *)
(* characters its UTF-8 bytes decode to under a one-byte code page, and    *)
(* "LF" is the line feed.                                                  *)
(***************************************************************************)
EXTENDS Integers, Sequences, FiniteSets

VARIABLES
    raw,              \* normalizer run: the raw Kelompok_Umur value
    hasil,            \* normalizer run: the value of the rewritten column
    npc,              \* normalizer run: "idle" | "raw" | "done"
    csv,              \* the rows of the CSV file, as read
    df_spark,         \* the canonical table load_data returns
    tahun_pilih,      \* sidebar: the selected year
    kota_pilih,       \* sidebar: the selected regions
    pc,               \* the position of the script in the current run
    ran,              \* the steps the current run has executed
    filtered_spark,   \* the filtered view
    total_kasus,
    jumlah_wilayah,
    df_umur,          \* per-age-group totals, in display order
    df_gender,        \* per-gender totals, a frame without a row order
    kelompok_dominan, \* the dominant age group and its share (lines 202-211)
    df_trend,         \* per-year totals, ascending by year
    insight_umur,     \* what insight_col1 shows
    insight_gender,   \* what insight_col2 shows
    puncak            \* what insight_col3 shows

normVars == << raw, hasil, npc >>

runVars == << filtered_spark, total_kasus, jumlah_wilayah, df_umur, df_gender,
              kelompok_dominan, df_trend, insight_umur, insight_gender,
              puncak >>

dashVars == << csv, df_spark, tahun_pilih, kota_pilih, pc, ran, runVars >>

vars == << normVars, dashVars >>

---------------------------------------------------------------------------
(* Bounds *)

MaxLen == 4

MaxRows == 2

---------------------------------------------------------------------------
(* The label normalizer: load_data, lines 45-54 *)

\* Java's "." does not match a line terminator.
LineTerminators == {"LF"}

\* The elements of a pattern that stand for ".?" and for ".".
OptAny == ".?"

AnyOne == "."

\* The six rlike patterns, in the order of the when-chain; each is a
\* sequence of alternatives, each alternative a sequence of elements.
Patterns ==
    << << << ">", "=", "5", "0" >>,
          << "GE", "5", "0" >>,
          << "a^", "permille", "yen", "5", "0" >> >>,
       << << "0", OptAny, "4" >> >>,
       << << "5", OptAny, "1", "4" >>,
          << "1", "4", "-", "M", "a", "y" >> >>,
       << << "1", "5", OptAny, "1", "9" >> >>,
       << << "2", "0", OptAny, "2", "4" >> >>,
       << << "2", "5", OptAny, "4", "9" >> >> >>

\* The value each when-branch yields.
Labels ==
    << << "GE", "5", "0" >>,
       << "0", "-", "4" >>,
       << "5", "-", "1", "4" >>,
       << "1", "5", "-", "1", "9" >>,
       << "2", "0", "-", "2", "4" >>,
       << "2", "5", "-", "4", "9" >> >>

\* Spark's trim: the space characters of both ends removed.
RECURSIVE LTrim(_)
LTrim(s) ==
    IF s # << >> /\ Head(s) = " " THEN LTrim(Tail(s)) ELSE s

RECURSIVE RTrim(_)
RTrim(s) ==
    IF s # << >> /\ s[Len(s)] = " " THEN RTrim(SubSeq(s, 1, Len(s) - 1)) ELSE s

trim(s) == RTrim(LTrim(s))

\* Whether elements j.. of pattern p match s from position i on.
RECURSIVE MatchHere(_, _, _, _)
MatchHere(p, j, s, i) ==
    IF j > Len(p) THEN TRUE
    ELSE IF p[j] = OptAny
         THEN \/ /\ i <= Len(s)
                 /\ s[i] \notin LineTerminators
                 /\ MatchHere(p, j + 1, s, i + 1)
              \/ MatchHere(p, j + 1, s, i)
    ELSE IF p[j] = AnyOne
         THEN /\ i <= Len(s)
              /\ s[i] \notin LineTerminators
              /\ MatchHere(p, j + 1, s, i + 1)
         ELSE /\ i <= Len(s)
              /\ s[i] = p[j]
              /\ MatchHere(p, j + 1, s, i + 1)

\* Column.rlike: the pattern is found anywhere in the value.
rlike(s, alts) ==
    \E a \in 1..Len(alts) : \E i \in 1..(Len(s) + 1) : MatchHere(alts[a], 1, s, i)

\* A when-chain with two branches exchanged (rule 3 tested before rule 2).
Kelompok_Umur_Swapped(s) ==
    IF rlike(trim(s), Patterns[1]) THEN Labels[1]
    ELSE IF rlike(trim(s), Patterns[3]) THEN Labels[3]
    ELSE IF rlike(trim(s), Patterns[2]) THEN Labels[2]
    ELSE IF rlike(trim(s), Patterns[4]) THEN Labels[4]
    ELSE IF rlike(trim(s), Patterns[5]) THEN Labels[5]
    ELSE IF rlike(trim(s), Patterns[6]) THEN Labels[6]
    ELSE trim(s)

\* The when-chain with "." written for ".?" in the five range rules.
Kelompok_Umur_Strict(s) ==
    LET strict(alts) ==
            [a \in 1..Len(alts) |->
                [j \in 1..Len(alts[a]) |->
                    IF alts[a][j] = OptAny THEN AnyOne ELSE alts[a][j]]]
    IN  IF rlike(trim(s), Patterns[1]) THEN Labels[1]
        ELSE IF rlike(trim(s), strict(Patterns[2])) THEN Labels[2]
        ELSE IF rlike(trim(s), strict(Patterns[3])) THEN Labels[3]
        ELSE IF rlike(trim(s), strict(Patterns[4])) THEN Labels[4]
        ELSE IF rlike(trim(s), strict(Patterns[5])) THEN Labels[5]
        ELSE IF rlike(trim(s), strict(Patterns[6])) THEN Labels[6]
        ELSE trim(s)

\* The new value of column Kelompok_Umur for a row whose value is s.
Kelompok_Umur(s) ==
    IF rlike(trim(s), Patterns[1]) THEN Labels[1]
    ELSE IF rlike(trim(s), Patterns[2]) THEN Labels[2]
    ELSE IF rlike(trim(s), Patterns[3]) THEN Labels[3]
    ELSE IF rlike(trim(s), Patterns[4]) THEN Labels[4]
    ELSE IF rlike(trim(s), Patterns[5]) THEN Labels[5]
    ELSE IF rlike(trim(s), Patterns[6]) THEN Labels[6]
    ELSE trim(s)

---------------------------------------------------------------------------
(* The CSV files the model reads *)

KotaSeq == << "KOTA BANDUNG", "KOTA BOGOR" >>

TahunSeq == << 2019, 2020, 2021 >>

UmurSeq == << << " ", "0", "-", "4" >>, << "1", "4", "-", "M", "a", "y" >> >>

GenderSeq == << "LAKI-LAKI", "PEREMPUAN" >>

JumlahSeq == << 0, 1, 2 >>

NRowValues ==
    Len(KotaSeq) * Len(TahunSeq) * Len(UmurSeq) * Len(GenderSeq) * Len(JumlahSeq)

\* The n-th row value, n in 0..NRowValues-1, under the file's column names.
RowOf(n) ==
    LET n1 == n \div Len(KotaSeq)
        n2 == n1 \div Len(TahunSeq)
        n3 == n2 \div Len(UmurSeq)
        n4 == n3 \div Len(GenderSeq)
    IN  [ nama_kabupaten_kota |-> KotaSeq[(n % Len(KotaSeq)) + 1],
          tahun               |-> TahunSeq[(n1 % Len(TahunSeq)) + 1],
          kelompok_umur       |-> UmurSeq[(n2 % Len(UmurSeq)) + 1],
          jenis_kelamin       |-> GenderSeq[(n3 % Len(GenderSeq)) + 1],
          jumlah_kasus        |-> JumlahSeq[(n4 % Len(JumlahSeq)) + 1] ]

\* The file whose i-th row is the ix[i]-th row value.
CsvFile(ix) == [i \in 1..Len(ix) |-> RowOf(ix[i])]

\* No result of the script depends on the order of the file's rows, so one
\* order stands for each multiset of rows.
Ascending(ix) == \A i \in 1..(Len(ix) - 1) : ix[i] <= ix[i + 1]

---------------------------------------------------------------------------
(* Frames and aggregates *)

\* load_data: the age-group column rewritten, the five columns renamed.
load_data(rows) ==
    [i \in 1..Len(rows) |->
        [ Kabupaten_Kota |-> rows[i].nama_kabupaten_kota,
          Jumlah_Kasus   |-> rows[i].jumlah_kasus,
          Kelompok_Umur  |-> Kelompok_Umur(rows[i].kelompok_umur),
          Jenis_Kelamin  |-> rows[i].jenis_kelamin,
          Tahun          |-> rows[i].tahun ]]

\* The distinct values of a column.
distinct(df, column) == { df[i][column] : i \in 1..Len(df) }

list_tahun(df) == distinct(df, "Tahun")

list_kota(df) == distinct(df, "Kabupaten_Kota")

\* What st.selectbox returns for an empty list of options (None).
NoTahun == 0

\* filtered_spark: the rows of the selected year and regions.
filter_year_kota(df, tahun, kota) ==
    SelectSeq(df, LAMBDA r : r.Tahun = tahun /\ r.Kabupaten_Kota \in kota)

\* The rows of the selected regions, of every year.
filter_kota(df, kota) ==
    SelectSeq(df, LAMBDA r : r.Kabupaten_Kota \in kota)

\* spark_sum("Jumlah_Kasus") over the rows of a frame.
RECURSIVE spark_sum(_)
spark_sum(df) ==
    IF df = << >> THEN 0 ELSE Head(df).Jumlah_Kasus + spark_sum(Tail(df))

\* The total taken over the canonical table, not over the filtered view.
total_kasus_unfiltered(view, df) ==
    IF df = << >> THEN 0 ELSE spark_sum(df)

\* total_kasus: the sum over the view; None, for no row, becomes 0.  The
\* canonical table df is in scope and unused.
agg_total_kasus(view, df) ==
    IF view = << >> THEN 0 ELSE spark_sum(view)

\* The sum of one group of groupBy(column).
group_total(df, column, key) ==
    spark_sum(SelectSeq(df, LAMBDA r : r[column] = key))

\* The per-age totals with the largest count of each group in place of its sum.
df_umur_spark_max(view) ==
    { [ Kelompok_Umur |-> k,
        Total |-> CHOOSE m \in { view[i].Jumlah_Kasus : i \in 1..Len(view) } :
                    /\ \E i \in 1..Len(view) :
                          view[i].Kelompok_Umur = k /\ view[i].Jumlah_Kasus = m
                    /\ \A i \in 1..Len(view) :
                          view[i].Kelompok_Umur = k => view[i].Jumlah_Kasus <= m ] :
      k \in distinct(view, "Kelompok_Umur") }

\* df_umur_spark: groupBy("Kelompok_Umur").agg(sum), as a set of rows.
df_umur_spark(view) ==
    { [ Kelompok_Umur |-> k, Total |-> group_total(view, "Kelompok_Umur", k) ] :
      k \in distinct(view, "Kelompok_Umur") }

\* df_gender_spark: groupBy("Jenis_Kelamin").agg(sum); no orderBy follows, so
\* the frame has no row order the script can rely on.
df_gender_spark(view) ==
    { [ Jenis_Kelamin |-> k, Total |-> group_total(view, "Jenis_Kelamin", k) ] :
      k \in distinct(view, "Jenis_Kelamin") }

desired_age_order == << Labels[2], Labels[3], Labels[4], Labels[5], Labels[6], Labels[1] >>

\* The code points of the model's characters, for the order of strings.
CodePoint(c) ==
    CASE c = "LF" -> 10  [] c = " " -> 32  [] c = "-" -> 45  [] c = "0" -> 48
      [] c = "1" -> 49   [] c = "2" -> 50  [] c = "4" -> 52  [] c = "5" -> 53
      [] c = "9" -> 57   [] c = "=" -> 61  [] c = ">" -> 62  [] c = "A" -> 65
      [] c = "M" -> 77   [] c = "N" -> 78  [] c = "a" -> 97  [] c = "y" -> 121
      [] c = "yen" -> 165 [] c = "a^" -> 226 [] c = "permille" -> 8240
      [] c = "GE" -> 8805

\* s sorts before t as strings.
RECURSIVE StrLess(_, _)
StrLess(s, t) ==
    IF t = << >> THEN FALSE
    ELSE IF s = << >> THEN TRUE
    ELSE IF Head(s) = Head(t) THEN StrLess(Tail(s), Tail(t))
    ELSE CodePoint(Head(s)) < CodePoint(Head(t))

\* The strings of a set in ascending order.
RECURSIVE SortStrings(_)
SortStrings(S) ==
    IF S = {} THEN << >>
    ELSE LET m == CHOOSE x \in S : \A y \in S \ {x} : StrLess(x, y)
         IN  << m >> \o SortStrings(S \ {m})

\* final_order of lines 190-198: the known labels present, in the desired
\* order, then the other labels in the order of the frame (orderBy).
final_order(umur) ==
    LET present == { r.Kelompok_Umur : r \in umur }
        known   == { desired_age_order[i] : i \in 1..Len(desired_age_order) }
    IN  SelectSeq(desired_age_order, LAMBDA a : a \in present)
        \o SortStrings(present \ known)

\* df_umur after sort_values on the categorical column.
sort_umur(umur) ==
    LET order == final_order(umur)
    IN  [i \in 1..Len(order) |-> CHOOSE r \in umur : r.Kelompok_Umur = order[i]]

\* The largest Total of a non-empty frame.
max_total(rows) ==
    CHOOSE m \in { r.Total : r \in rows } : \A r \in rows : r.Total <= m

\* Series.idxmax taking the last of the largest entries.
idxmax_last(frame) ==
    LET m == max_total({ frame[i] : i \in 1..Len(frame) })
    IN  CHOOSE i \in 1..Len(frame) :
            /\ frame[i].Total = m
            /\ \A j \in (i + 1)..Len(frame) : frame[j].Total # m

\* Series.idxmax over a frame with a row order: the first of the largest.
idxmax(frame) ==
    LET m == max_total({ frame[i] : i \in 1..Len(frame) })
    IN  CHOOSE i \in 1..Len(frame) :
            /\ frame[i].Total = m
            /\ \A j \in 1..(i - 1) : frame[j].Total # m

\* part / total * 100 written the other way round.
pct_inverted(part, total) ==
    IF total # 0 /\ part # 0 THEN [ num |-> total * 100, den |-> part ]
    ELSE [ num |-> 0, den |-> 1 ]

\* (part / total_kasus * 100) if total_kasus else 0, as the exact quotient
\* num / den with den > 0.
pct(part, total) ==
    IF total # 0 THEN [ num |-> part * 100, den |-> total ]
    ELSE [ num |-> 0, den |-> 1 ]

\* orderBy("Tahun") / sort_values("Tahun"): the rows ascending by year.
RECURSIVE sort_tahun(_)
sort_tahun(rows) ==
    IF rows = {} THEN << >>
    ELSE LET r == CHOOSE x \in rows : \A y \in rows : x.Tahun <= y.Tahun
         IN  << r >> \o sort_tahun(rows \ {r})

\* The trend taken from the rows of the selected year only.
df_trend_spark_year(df, tahun, kota) ==
    LET sel == filter_year_kota(df, tahun, kota)
    IN  sort_tahun({ [ Tahun |-> y, Total |-> group_total(sel, "Tahun", y) ] :
                     y \in distinct(sel, "Tahun") })

\* df_trend_spark: the canonical table filtered by region, grouped by year,
\* summed, ordered by year.  The selected year is in scope and unused.
df_trend_spark(df, tahun, kota) ==
    LET sel == filter_kota(df, kota)
    IN  sort_tahun({ [ Tahun |-> y, Total |-> group_total(sel, "Tahun", y) ] :
                     y \in distinct(sel, "Tahun") })

NoPct == [ num |-> 0, den |-> 1 ]

\* Lines 199-211: the dominant age group and its share of the total.
dominan(umur, total) ==
    IF umur = << >>
    THEN [ status |-> "None", Kelompok_Umur |-> << >>, Total |-> 0,
           age_pct |-> NoPct ]
    ELSE LET r == umur[idxmax(umur)]
         IN  [ status |-> "row", Kelompok_Umur |-> r.Kelompok_Umur,
               Total |-> r.Total, age_pct |-> pct(r.Total, total) ]

\* Lines 288-294: the metric of insight_col1, or its notice when the lookup
\* in kelompok_dominan raises.
insight_age(kd, total) ==
    IF kd.status = "None"
    THEN [ status |-> "info", name |-> << >>, total |-> 0, pct |-> NoPct ]
    ELSE [ status |-> "metric", name |-> kd.Kelompok_Umur, total |-> kd.Total,
           pct |-> pct(kd.Total, total) ]

\* Lines 295-302: the metrics insight_col2 may show.  idxmax takes the first
\* of the largest rows in an order Spark does not fix, so any of them.
insight_genders(gender, total) ==
    IF gender = {}
    THEN { [ status |-> "info", name |-> "", total |-> 0, pct |-> NoPct ] }
    ELSE { [ status |-> "metric", name |-> r.Jenis_Kelamin, total |-> r.Total,
             pct |-> pct(r.Total, total) ] :
           r \in { x \in gender : x.Total = max_total(gender) } }

NoPuncak(status) ==
    [ status |-> status, top_year |-> NoTahun, top_total |-> 0,
      yoy_text |-> "", prev |-> 0, yoy |-> NoPct ]

\* The peak-year insight without the test of the divisor: the division by
\* zero raises and the except branch shows the notice.
puncak_tahun_nozero(trend) ==
    IF trend = << >> THEN NoPuncak("info")
    ELSE LET top_row      == trend[idxmax(trend)]
             sorted_trend == sort_tahun({ trend[i] : i \in 1..Len(trend) })
             idx == (CHOOSE i \in 1..Len(sorted_trend) :
                        sorted_trend[i].Tahun = top_row.Tahun) - 1
         IN  IF idx > 0
             THEN IF sorted_trend[idx].Total = 0 THEN NoPuncak("info")
                  ELSE [ status |-> "metric", top_year |-> top_row.Tahun,
                         top_total |-> top_row.Total, yoy_text |-> "pct",
                         prev |-> sorted_trend[idx].Total,
                         yoy |-> [ num |-> (top_row.Total - sorted_trend[idx].Total) * 100,
                                   den |-> sorted_trend[idx].Total ] ]
             ELSE [ status |-> "metric", top_year |-> top_row.Tahun,
                    top_total |-> top_row.Total,
                    yoy_text |-> "Tidak ada data sebelumnya",
                    prev |-> 0, yoy |-> NoPct ]

\* Lines 303-322: the peak year, its total and the change against the entry
\* before it in the sorted series.  idx is the 0-based years.index(top_year),
\* so sorted_trend[idx] here is vals[idx-1] there.
puncak_tahun(trend) ==
    IF trend = << >> THEN NoPuncak("info")
    ELSE LET top_row      == trend[idxmax(trend)]
             top_year     == top_row.Tahun
             top_total    == top_row.Total
             sorted_trend == sort_tahun({ trend[i] : i \in 1..Len(trend) })
             years        == { sorted_trend[i].Tahun : i \in 1..Len(sorted_trend) }
         IN  IF top_year \in years
             THEN LET idx == (CHOOSE i \in 1..Len(sorted_trend) :
                                 /\ sorted_trend[i].Tahun = top_year
                                 /\ \A j \in 1..(i - 1) :
                                       sorted_trend[j].Tahun # top_year) - 1
                  IN  IF idx > 0 /\ sorted_trend[idx].Total # 0
                      THEN [ status |-> "metric", top_year |-> top_year,
                             top_total |-> top_total, yoy_text |-> "pct",
                             prev |-> sorted_trend[idx].Total,
                             yoy |-> [ num |-> (top_total - sorted_trend[idx].Total) * 100,
                                       den |-> sorted_trend[idx].Total ] ]
                      ELSE [ status |-> "metric", top_year |-> top_year,
                             top_total |-> top_total,
                             yoy_text |-> "Tidak ada data sebelumnya",
                             prev |-> 0, yoy |-> NoPct ]
             ELSE [ status |-> "metric", top_year |-> top_year,
                    top_total |-> top_total, yoy_text |-> "-",
                    prev |-> 0, yoy |-> NoPct ]

\* A gate whose test never finds the view empty.
is_empty_never(view) == FALSE

\* filtered_spark.count() == 0
is_empty(view) == Len(view) = 0

---------------------------------------------------------------------------
(* The script *)

NoInsight == [ status |-> "unset", name |-> << >>, total |-> 0, pct |-> NoPct ]

NoInsightGender == [ status |-> "unset", name |-> "", total |-> 0, pct |-> NoPct ]

NoDominan ==
    [ status |-> "unset", Kelompok_Umur |-> << >>, Total |-> 0, age_pct |-> NoPct ]

\* The values of the run's names before the run assigns them.
RunUnset ==
    /\ filtered_spark = << >>
    /\ total_kasus = 0
    /\ jumlah_wilayah = 0
    /\ df_umur = << >>
    /\ df_gender = {}
    /\ kelompok_dominan = NoDominan
    /\ df_trend = << >>
    /\ insight_umur = NoInsight
    /\ insight_gender = NoInsightGender
    /\ puncak = NoPuncak("unset")

NormIdle == raw = << >> /\ hasil = << >> /\ npc = "idle"

Init ==
    /\ NormIdle
    /\ \E n \in 0..MaxRows :
          \E ix \in [1..n -> 0..(NRowValues - 1)] :
             Ascending(ix) /\ csv = CsvFile(ix)
    /\ df_spark = << >>
    /\ tahun_pilih = NoTahun
    /\ kota_pilih = {}
    /\ pc = "load"
    /\ ran = {}
    /\ RunUnset

\* Lines 62-67: the table is loaded once per process.
LoadData ==
    /\ pc = "load"
    /\ df_spark' = load_data(csv)
    /\ pc' = "sidebar"
    /\ UNCHANGED << normVars, csv, tahun_pilih, kota_pilih, ran, runVars >>

\* The assignments that start a run with selection (t, k): a run's names do
\* not outlive it.
StartRun(t, k) ==
    /\ tahun_pilih' = t
    /\ kota_pilih' = k
    /\ pc' = "filter"
    /\ ran' = {}
    /\ filtered_spark' = << >>
    /\ total_kasus' = 0
    /\ jumlah_wilayah' = 0
    /\ df_umur' = << >>
    /\ df_gender' = {}
    /\ kelompok_dominan' = NoDominan
    /\ df_trend' = << >>
    /\ insight_umur' = NoInsight
    /\ insight_gender' = NoInsightGender
    /\ puncak' = NoPuncak("unset")
    /\ UNCHANGED << normVars, csv, df_spark >>

\* Lines 71-91, first run: the selectbox shows the first option, the latest
\* year (None when there is none), and the multiselect every region.
Sidebar ==
    /\ pc = "sidebar"
    /\ StartRun(IF list_tahun(df_spark) = {} THEN NoTahun
                ELSE CHOOSE t \in list_tahun(df_spark) :
                        \A u \in list_tahun(df_spark) : u <= t,
                list_kota(df_spark))

\* Lines 71-91, later runs: the user picks another year, or adds a region
\* to the selection, removes one or clears it, and the script runs again
\* with the cached table.
Rerun ==
    /\ pc \in { "done", "stopped" }
    /\ \/ \E t \in list_tahun(df_spark) \ { tahun_pilih } :
             StartRun(t, kota_pilih)
       \/ \E c \in list_kota(df_spark) \ kota_pilih :
             StartRun(tahun_pilih, kota_pilih \cup { c })
       \/ \E c \in kota_pilih :
             StartRun(tahun_pilih, kota_pilih \ { c })
       \/ kota_pilih # {} /\ StartRun(tahun_pilih, {})

\* Lines 92-98: the filtered view and the gate on its row count.
Filter ==
    /\ pc = "filter"
    /\ filtered_spark' = filter_year_kota(df_spark, tahun_pilih, kota_pilih)
    /\ ran' = ran \cup { "filter" }
    /\ pc' = IF is_empty(filtered_spark') THEN "stopped" ELSE "download"
    /\ UNCHANGED << normVars, csv, df_spark, tahun_pilih, kota_pilih,
                    total_kasus, jumlah_wilayah, df_umur, df_gender,
                    kelompok_dominan, df_trend, insight_umur, insight_gender,
                    puncak >>

\* Lines 100-166: the export of the filtered view in the chosen format; it
\* assigns no name a later step reads.
Download ==
    /\ pc = "download"
    /\ ran' = ran \cup { "download" }
    /\ pc' = "agg"
    /\ UNCHANGED << normVars, csv, df_spark, tahun_pilih, kota_pilih, runVars >>

\* Lines 168-211: total, region count, per-age and per-gender totals, and
\* the dominant age group.
Agregasi ==
    /\ pc = "agg"
    /\ total_kasus' = agg_total_kasus(filtered_spark, df_spark)
    /\ jumlah_wilayah' = Cardinality(distinct(filtered_spark, "Kabupaten_Kota"))
    /\ df_umur' = sort_umur(df_umur_spark(filtered_spark))
    /\ df_gender' = df_gender_spark(filtered_spark)
    /\ kelompok_dominan' = dominan(df_umur', total_kasus')
    /\ ran' = ran \cup { "total", "wilayah", "umur", "gender" }
    /\ pc' = "trend"
    /\ UNCHANGED << normVars, csv, df_spark, tahun_pilih, kota_pilih,
                    filtered_spark, df_trend, insight_umur, insight_gender,
                    puncak >>

\* Lines 262-285: the trend series.
Trend ==
    /\ pc = "trend"
    /\ df_trend' = df_trend_spark(df_spark, tahun_pilih, kota_pilih)
    /\ ran' = ran \cup { "trend" }
    /\ pc' = "insight"
    /\ UNCHANGED << normVars, csv, df_spark, tahun_pilih, kota_pilih,
                    filtered_spark, total_kasus, jumlah_wilayah, df_umur,
                    df_gender, kelompok_dominan, insight_umur, insight_gender,
                    puncak >>

\* Lines 287-322: the three insights, each in its own try block.
Insight ==
    /\ pc = "insight"
    /\ insight_umur' = insight_age(kelompok_dominan, total_kasus)
    /\ insight_gender' \in insight_genders(df_gender, total_kasus)
    /\ puncak' = puncak_tahun(df_trend)
    /\ ran' = ran \cup { "insight" }
    /\ pc' = "done"
    /\ UNCHANGED << normVars, csv, df_spark, tahun_pilih, kota_pilih,
                    filtered_spark, total_kasus, jumlah_wilayah, df_umur,
                    df_gender, kelompok_dominan, df_trend >>

Next ==
    \/ LoadData
    \/ Sidebar
    \/ Rerun
    \/ Filter
    \/ Download
    \/ Agregasi
    \/ Trend
    \/ Insight

Spec == Init /\ [][Next]_vars

---------------------------------------------------------------------------
(* The normalizer alone *)

Alphabet == { "0", "1", "2", "4", "5", "9", "-", " ", "GE", "LF" }

\* Labels of the data set and of its known corruptions, longer than MaxLen
\* or over characters outside Alphabet.
DataLabels ==
    { << "5", "-", "1", "4" >>,
      << "1", "4", "-", "M", "a", "y" >>,
      << "1", "5", "-", "1", "9" >>,
      << "2", "0", "-", "2", "4" >>,
      << "2", "5", "-", "4", "9" >>,
      << ">", "=", "5", "0" >>,
      << "a^", "permille", "yen", "5", "0" >>,
      << " ", "2", "5", "-", "4", "9", " " >>,
      << " ", "1", "4", "-", "M", "a", "y", " " >>,
      << " ", "N", "A", " ", " " >>,
      << "N", " ", "A" >>,
      << ">", "=", "5", "0", "-", "4" >>,
      << "1", "5", "LF", "1", "9" >>,
      << "2", "0", "-", "-", "2", "4" >> }

DashIdle ==
    /\ csv = << >>
    /\ df_spark = << >>
    /\ tahun_pilih = NoTahun
    /\ kota_pilih = {}
    /\ pc = "idle"
    /\ ran = {}
    /\ RunUnset

InitNorm ==
    /\ DashIdle
    /\ \/ \E n \in 0..MaxLen : \E s \in [1..n -> Alphabet] : raw = s
       \/ raw \in DataLabels
    /\ hasil = << >>
    /\ npc = "raw"

\* Lines 45-54 on one row: withColumn("Kelompok_Umur", when(...)...).
Normalize ==
    /\ npc = "raw"
    /\ hasil' = Kelompok_Umur(raw)
    /\ npc' = "done"
    /\ UNCHANGED << raw, dashVars >>

NextNorm == Normalize

SpecNorm == InitNorm /\ [][NextNorm]_vars

---------------------------------------------------------------------------
(* Properties of the normalizer, checked under SpecNorm *)

\* s without the spaces of its two ends, read off the positions of its
\* first and last character that is not a space.
Stripped(s) ==
    LET keep == { i \in 1..Len(s) : s[i] # " " }
    IN  IF keep = {} THEN << >>
        ELSE SubSeq(s, CHOOSE i \in keep : \A j \in keep : i <= j,
                       CHOOSE i \in keep : \A j \in keep : j <= i)

\* The rules of the when-chain that match the stripped label.
Matching(s) == { k \in 1..Len(Patterns) : rlike(Stripped(s), Patterns[k]) }

Contains(t, w) ==
    \E i \in 1..(Len(t) - Len(w) + 1) : SubSeq(t, i, i + Len(w) - 1) = w

\* a and b occur in t with n characters between them, none of them in the
\* set excluded.
Separated(t, a, b, n, excluded) ==
    \E i \in 1..(Len(t) - Len(a) - n - Len(b) + 1) :
        /\ SubSeq(t, i, i + Len(a) - 1) = a
        /\ \A j \in (i + Len(a))..(i + Len(a) + n - 1) : t[j] \notin excluded
        /\ SubSeq(t, i + Len(a) + n, i + Len(a) + n + Len(b) - 1) = b

\* The two integers of each range bucket.
Buckets ==
    << << << "0" >>, << "4" >> >>,
       << << "5" >>, << "1", "4" >> >>,
       << << "1", "5" >>, << "1", "9" >> >>,
       << << "2", "0" >>, << "2", "4" >> >>,
       << << "2", "5" >>, << "4", "9" >> >> >>

\* The reference normalizer: rule 1 by its three literals, then the first
\* bucket whose two integers occur with a number of separator characters in
\* seps between them (for 5-14 also the literal 14-May).
Reference(s, seps, excluded) ==
    LET t == Stripped(s)
        hit(k) == \/ \E n \in seps :
                        Separated(t, Buckets[k][1], Buckets[k][2], n, excluded)
                  \/ k = 2 /\ Contains(t, << "1", "4", "-", "M", "a", "y" >>)
        hits == { k \in 1..Len(Buckets) : hit(k) }
    IN  IF \/ Contains(t, << ">", "=", "5", "0" >>)
           \/ Contains(t, << "GE", "5", "0" >>)
           \/ Contains(t, << "a^", "permille", "yen", "5", "0" >>)
        THEN Labels[1]
        ELSE IF hits = {} THEN t
        ELSE Labels[1 + CHOOSE k \in hits : \A m \in hits : k <= m]

\* C8 as stated: the range rules map a label exactly when the bucket's two
\* integers occur in it with exactly one arbitrary character between them.
C8_ExactlyOneSeparator ==
    npc = "done" => hasil = Reference(raw, { 1 }, {})

\* C8 as amended: the range rules map a label exactly when the bucket's two
\* integers occur in it with at most one character between them, that
\* character not a line terminator.
C8_AtMostOneSeparator ==
    npc = "done" => hasil = Reference(raw, { 0, 1 }, LineTerminators)

\* A label mapped to 15-19 with nothing between the two integers.
C8_Witness ==
    /\ npc = "done"
    /\ raw = << "1", "5", "1", "9" >>
    /\ hasil = Labels[4]

---------------------------------------------------------------------------
(* Properties of the script, checked under Spec *)

RECURSIVE SumSeqTotal(_)
SumSeqTotal(frame) ==
    IF frame = << >> THEN 0 ELSE Head(frame).Total + SumSeqTotal(Tail(frame))

RECURSIVE SumSetTotal(_)
SumSetTotal(rows) ==
    IF rows = {} THEN 0
    ELSE LET r == CHOOSE x \in rows : TRUE
         IN  r.Total + SumSetTotal(rows \ {r})

\* C2: the trend series a run shows is the one the script computes for the
\* same regions under every other choice of the year.
C2_TrendIgnoresYear ==
    pc \in { "insight", "done" } =>
        \A y \in list_tahun(df_spark) :
            df_trend_spark(df_spark, y, kota_pilih) = df_trend

\* A finished run over a table of several years whose trend spans them.
C2_Witness ==
    /\ pc = "done"
    /\ Len(df_trend) >= 2
    /\ tahun_pilih = df_trend[1].Tahun

\* C3: once a run has aggregated, total_kasus is the sum of the per-age
\* totals and the sum of the per-gender totals.
C3_AggregationConsistent ==
    pc \in { "trend", "insight", "done" } =>
        /\ total_kasus = SumSeqTotal(df_umur)
        /\ total_kasus = SumSetTotal(df_gender)

\* An aggregated view with two age groups and two genders.
C3_Witness ==
    /\ pc = "trend"
    /\ Len(df_umur) = 2
    /\ Cardinality(df_gender) = 2
    /\ total_kasus > 1

\* C4: an empty region selection gives an empty filtered view, and a run
\* whose filtered view is empty stops at the notice having executed the
\* filter alone: no export, aggregation, trend or insight.
C4_EmptyViewStops ==
    /\ "filter" \in ran /\ kota_pilih = {} => filtered_spark = << >>
    /\ "filter" \in ran /\ filtered_spark = << >> =>
          /\ pc = "stopped"
          /\ ran = { "filter" }
          /\ total_kasus = 0 /\ jumlah_wilayah = 0
          /\ df_umur = << >> /\ df_gender = {} /\ df_trend = << >>
          /\ kelompok_dominan = NoDominan
          /\ insight_umur = NoInsight /\ insight_gender = NoInsightGender
          /\ puncak = NoPuncak("unset")

\* A run stopped at the notice after the user cleared the region selection
\* of a table that has rows.
C4_Witness ==
    /\ pc = "stopped"
    /\ kota_pilih = {}
    /\ df_spark # << >>

\* The position of the peak year in the trend series.
PeakPos == CHOOSE i \in 1..Len(df_trend) : df_trend[i].Tahun = puncak.top_year

Unavailable == puncak.yoy_text = "Tidak ada data sebelumnya"

\* C5 as stated: the change of the peak year is unavailable when the peak
\* year is the earliest of the series and a percentage in every other case.
C5_NumericUnlessEarliest ==
    pc = "done" =>
        /\ puncak.status = "metric"
        /\ IF PeakPos = 1 THEN Unavailable ELSE puncak.yoy_text = "pct"

\* C5 as amended: the change of the peak year is unavailable when the peak
\* year is the earliest of the series or the total of the entry before it
\* is zero, and a percentage in every other case.
C5_NumericUnlessEarliestOrZero ==
    pc = "done" =>
        /\ puncak.status = "metric"
        /\ IF PeakPos = 1 \/ df_trend[PeakPos - 1].Total = 0
           THEN Unavailable ELSE puncak.yoy_text = "pct"

\* A peak year that is not the earliest and follows a total of zero.
C5_Witness ==
    /\ pc = "done"
    /\ PeakPos > 1
    /\ df_trend[PeakPos - 1].Total = 0
    /\ Unavailable

\* The quotient q.num / q.den lies between 0 and 100.
InRange(q) == q.den > 0 /\ 0 <= q.num /\ q.num <= 100 * q.den

\* C6: the shares shown for the dominant age group and the dominant gender
\* lie between 0 and 100, and are 0 when total_kasus is 0.
C6_ShareInRange ==
    /\ pc \in { "trend", "insight", "done" } =>
          /\ kelompok_dominan.status = "row"
          /\ InRange(kelompok_dominan.age_pct)
          /\ total_kasus = 0 => kelompok_dominan.age_pct.num = 0
    /\ pc = "done" =>
          /\ insight_umur.status = "metric"
          /\ insight_gender.status = "metric"
          /\ InRange(insight_umur.pct)
          /\ InRange(insight_gender.pct)
          /\ total_kasus = 0 =>
                insight_umur.pct.num = 0 /\ insight_gender.pct.num = 0

\* A finished run over a non-empty view whose counts are all zero.
C6_Witness ==
    /\ pc = "done"
    /\ total_kasus = 0
    /\ Len(filtered_spark) = MaxRows
    /\ insight_umur.status = "metric"
    /\ insight_gender.status = "metric"

\* The entries of the trend series for the calendar year before the peak.
YearBefore == { i \in 1..Len(df_trend) : df_trend[i].Tahun = puncak.top_year - 1 }

\* C7: the change of the peak year is taken against the total of the
\* calendar year before it; with no entry for that year, or a total of zero
\* there, no percentage is shown.
C7_CalendarYearBefore ==
    pc = "done" /\ puncak.status = "metric" =>
        IF YearBefore = {} \/ \E i \in YearBefore : df_trend[i].Total = 0
        THEN puncak.yoy_text # "pct"
        ELSE /\ puncak.yoy_text = "pct"
             /\ \A i \in YearBefore : puncak.prev = df_trend[i].Total

\* C9: in a run that passed the gate, the trend series is not empty and has
\* an entry for the selected year whose total is total_kasus.
C9_TrendHasSelectedYear ==
    pc \in { "insight", "done" } =>
        /\ df_trend # << >>
        /\ \E i \in 1..Len(df_trend) :
              /\ df_trend[i].Tahun = tahun_pilih
              /\ df_trend[i].Total = total_kasus

\* A run past the gate whose trend has an entry besides the selected year's.
C9_Witness ==
    /\ pc = "insight"
    /\ Len(df_trend) >= 2
    /\ total_kasus > 0

\* C10: a percentage shown for the peak year is not negative, and of several
\* years with the largest total the earliest is the peak year.
C10_RiseAndEarliestPeak ==
    pc = "done" /\ puncak.status = "metric" =>
        /\ puncak.yoy_text = "pct" => puncak.yoy.den > 0 /\ puncak.yoy.num >= 0
        /\ \A i \in 1..Len(df_trend) :
              /\ df_trend[i].Total <= puncak.top_total
              /\ df_trend[i].Total = puncak.top_total =>
                    puncak.top_year <= df_trend[i].Tahun
        /\ \E i \in 1..Len(df_trend) :
              /\ df_trend[i].Tahun = puncak.top_year
              /\ df_trend[i].Total = puncak.top_total

\* A peak year shown with a rise above zero.
C10_Witness ==
    /\ pc = "done"
    /\ puncak.yoy_text = "pct"
    /\ puncak.yoy.num > 0

=============================================================================
